---------------------------- MODULE Spec2Model ----------------------------
(***************************************************************************)
(* Poisson-likelihood power-law fit of an X-ray counts spectrum:           *)
(* the PowerlawPoissonFit class and the fitting cells of                   *)
(* notebooks/Example1_fit_HETG_powerlaw.ipynb, and test_apply_model of the *)
(* specutils notebook.                                                     *)
(*                                                                         *)
(* numpy's float64 values are modelled as fixed-point numbers (an integer  *)
(* count of 1/Scale units) with the IEEE special values NaN, +inf, -inf;   *)
(* a finite result whose magnitude exceeds FMax overflows to an infinity,  *)
(* as a float64 result beyond the largest double does.                     *)
(***************************************************************************)
EXTENDS Integers, Sequences, FiniteSets, TLC

\* Fixed-point resolution: one unit is 1/Scale.
Scale == 10^3

\* Largest finite magnitude, in units (the model's stand-in for DBL_MAX).
FMax == 1000000

\* Longest predicted/observed vector drawn for the statistics functions.
MaxBins == 2

\* Most objective evaluations the minimizer makes after the starting point.
MaxProbes == 2

---------------------------------------------------------------------------
(* float64 values and numpy's arithmetic on them *)

Fin(n) == [k |-> "fin", v |-> n]
NaN == [k |-> "nan", v |-> 0]
PInf == [k |-> "pinf", v |-> 0]
NInf == [k |-> "ninf", v |-> 0]

\* n whole units (n * 1.0)
Whole(n) == Fin(n * Scale)

Abs(n) == IF n < 0 THEN -n ELSE n

\* Round a finite result into the representable range: overflow gives +-inf.
Norm(n) == IF n > FMax THEN PInf ELSE IF n < -FMax THEN NInf ELSE Fin(n)

\* -1, 0 or 1; NaN has no sign and is handled by the callers first.
Sgn(a) ==
    CASE a.k = "pinf" -> 1
      [] a.k = "ninf" -> -1
      [] a.k = "fin" -> (IF a.v > 0 THEN 1 ELSE IF a.v < 0 THEN -1 ELSE 0)
      [] OTHER -> 0

\* np.isfinite
IsFinite(a) == a.k = "fin"

IsInf(a) == a.k \in {"pinf", "ninf"}

\* a != 0.0 (True for NaN and the infinities)
FNe0(a) == ~(a.k = "fin" /\ a.v = 0)

FNeg(a) ==
    CASE a.k = "fin" -> Fin(-a.v)
      [] a.k = "pinf" -> NInf
      [] a.k = "ninf" -> PInf
      [] OTHER -> NaN

FAdd(a, b) ==
    CASE a.k = "nan" \/ b.k = "nan" -> NaN
      [] a.k = "fin" /\ b.k = "fin" -> Norm(a.v + b.v)
      [] IsInf(a) /\ IsInf(b) -> (IF a.k = b.k THEN a ELSE NaN)
      [] IsInf(a) -> a
      [] OTHER -> b

FSub(a, b) == FAdd(a, FNeg(b))

\* The magnitude |a|*|b| in units, or FMax + 1 when it overflows.
MulMag(x, y) ==
    IF x = 0 \/ y = 0 THEN 0
    ELSE IF y > (((FMax + 1) * Scale) - 1) \div x THEN FMax + 1
    ELSE (x * y) \div Scale

FMul(a, b) ==
    CASE a.k = "nan" \/ b.k = "nan" -> NaN
      [] a.k = "fin" /\ b.k = "fin" -> Norm(Sgn(a) * Sgn(b) * MulMag(Abs(a.v), Abs(b.v)))
      [] Sgn(a) * Sgn(b) = 0 -> NaN
      [] Sgn(a) * Sgn(b) > 0 -> PInf
      [] OTHER -> NInf

FDiv(a, b) ==
    CASE a.k = "nan" \/ b.k = "nan" -> NaN
      [] IsInf(a) /\ IsInf(b) -> NaN
      [] IsInf(a) -> (IF Sgn(a) * (IF Sgn(b) < 0 THEN -1 ELSE 1) > 0 THEN PInf ELSE NInf)
      [] IsInf(b) -> Fin(0)
      [] b.v = 0 -> (IF a.v = 0 THEN NaN ELSE IF a.v > 0 THEN PInf ELSE NInf)
      [] OTHER -> Norm(Sgn(a) * Sgn(b) * ((Abs(a.v) * Scale) \div Abs(b.v)))

\* a < b (False whenever either is NaN)
FLt(a, b) ==
    CASE a.k = "nan" \/ b.k = "nan" -> FALSE
      [] a.k = "fin" /\ b.k = "fin" -> a.v < b.v
      [] a.k = "ninf" -> b.k # "ninf"
      [] b.k = "pinf" -> a.k # "pinf"
      [] OTHER -> FALSE

FLe(a, b) == FLt(a, b) \/ (a.k # "nan" /\ a = b)

\* ln 2, in units
Ln2 == (693147 * Scale) \div 10^6

\* ln(m / Scale) in units for Scale <= m < 2 * Scale, by the series
\* ln m = 2 (z + z^3/3 + z^5/5), z = (m - 1)/(m + 1) <= 1/3.
LnSeries(m) ==
    LET z == ((m - Scale) * Scale) \div (m + Scale)
        z2 == (z * z) \div Scale
        z3 == (z * z2) \div Scale
        z5 == (z3 * z2) \div Scale
    IN (2 * (15 * z + 5 * z3 + 3 * z5) + 7) \div 15

RECURSIVE LnUnits(_, _)
\* ln((w / d) / Scale) in units, for w > 0: the argument is halved or doubled
\* into [1, 2), each step adding or removing ln 2; the divisor d keeps the
\* halving exact.
LnUnits(w, d) ==
    IF w >= 2 * Scale * d THEN Ln2 + LnUnits(w, 2 * d)
    ELSE IF w < Scale * d THEN LnUnits(2 * w, d) - Ln2
    ELSE LnSeries(w \div d)

\* np.log
FLog(a) ==
    CASE a.k = "nan" -> NaN
      [] a.k = "pinf" -> PInf
      [] a.k = "ninf" -> NaN
      [] a.v = 0 -> NInf
      [] a.v < 0 -> NaN
      [] OTHER -> Fin(LnUnits(a.v, 1))

RECURSIVE ISqrtIn(_, _, _)
\* The largest r in lo..hi with r * r <= n.
ISqrtIn(n, lo, hi) ==
    IF lo >= hi THEN lo
    ELSE LET mid == (lo + hi + 1) \div 2
         IN IF mid <= n \div mid THEN ISqrtIn(n, mid, hi) ELSE ISqrtIn(n, lo, mid - 1)

ISqrt(n) == ISqrtIn(n, 0, 46340)

\* np.sqrt
FSqrt(a) ==
    CASE a.k = "nan" -> NaN
      [] a.k = "pinf" -> PInf
      [] a.k = "ninf" -> NaN
      [] a.v < 0 -> NaN
      [] OTHER -> Fin(ISqrt(a.v * Scale))

RECURSIVE FSumFrom(_, _)
\* np.sum: the running total of s from its i-th entry on, added left to right.
FSumFrom(s, i) == IF i > Len(s) THEN Fin(0) ELSE FAdd(s[i], FSumFrom(s, i + 1))

FSum(s) == FSumFrom(s, 1)

---------------------------------------------------------------------------
(* The statistics of PowerlawPoissonFit, as functions of the model counts   *)
(* histogram (ymodel, mcounts) and the observed counts (ydata, counts)      *)

\* An output that has not been computed yet.
Unset == [k |-> "unset", v |-> 0]

\* The mask had it been written ii = (ymodel > 0.0).
NonZeroMaskPositive(ymodel) == [i \in 1..Len(ymodel) |-> FLt(Fin(0), ymodel[i])]

\* ii = (ymodel != 0.0)
NonZeroMask(ymodel) == [i \in 1..Len(ymodel) |-> FNe0(ymodel[i])]

\* cvals = zeros; cvals[ii] = ydata[ii] * log(ymodel[ii]) - ymodel[ii]
CVals(ymodel, ydata) ==
    LET ii == NonZeroMask(ymodel)
    IN [i \in 1..Len(ymodel) |->
          IF ii[i] THEN FSub(FMul(ydata[i], FLog(ymodel[i])), ymodel[i]) ELSE Fin(0)]

\* The return had it been written return loglike, with no isfinite test.
FiniteOrNegInfUnguarded(loglike) == loglike

\* if np.isfinite(loglike): return loglike; else: return -np.inf
FiniteOrNegInf(loglike) == IF IsFinite(loglike) THEN loglike ELSE NInf

\* The body of loglikelihood after ymodel and ydata are fetched.
loglike_of(ymodel, ydata) == FiniteOrNegInf(FSum(CVals(ymodel, ydata)))

\* return -result/2.0
cash_of(result) == FDiv(FNeg(result), Whole(2))

\* cts_err = np.sqrt(self.counts)
cts_err_of(counts) == [i \in 1..Len(counts) |-> FSqrt(counts[i])]

\* The body of mod_residuals after mcounts is fetched.
residuals_of(mcounts, counts) ==
    LET cts_err == cts_err_of(counts)
    IN [i \in 1..Len(counts) |->
          IF FNe0(cts_err[i])
          THEN FDiv(FSub(mcounts[i], counts[i]), cts_err[i])
          ELSE Fin(0)]

---------------------------------------------------------------------------
(* The model and the response: clarsach.Powerlaw and the spectrum's        *)
(* bin_counts / apply_resp, which the notebook calls and does not define   *)

RECURSIVE FPowInt(_, _)
\* b ** n for a whole n >= 0
FPowInt(b, n) == IF n = 0 THEN Whole(1) ELSE FMul(b, FPowInt(b, n - 1))

RECURSIVE IPow10(_)
IPow10(n) == IF n = 0 THEN 1 ELSE 10 * IPow10(n - 1)

\* np.power(10.0, x); a finite x is taken down to the half-integer below it.
Pow10(x) ==
    CASE x.k = "nan" -> NaN
      [] x.k = "pinf" -> PInf
      [] x.k = "ninf" -> Fin(0)
      [] OTHER ->
          LET n == x.v \div Scale
              half == (x.v - n * Scale) >= Scale \div 2
              whole == IF n > 9 THEN PInf
                       ELSE IF n < -9 THEN Fin(0)
                       ELSE IF n >= 0 THEN Norm(IPow10(n) * Scale)
                       ELSE Fin(Scale \div IPow10(-n))
          IN IF half THEN FMul(whole, FSqrt(Whole(10))) ELSE whole

\* E ** (-index), for a finite index taken down to the half-integer below it.
PowNeg(E, index) ==
    CASE index.k = "nan" -> NaN
      [] index.k = "pinf" -> (IF FLt(Whole(1), E) THEN Fin(0) ELSE NaN)
      [] index.k = "ninf" -> (IF FLt(Whole(1), E) THEN PInf ELSE NaN)
      [] OTHER ->
          LET n == index.v \div Scale
              half == (index.v - n * Scale) >= Scale \div 2
              inv == FDiv(Whole(1), E)
              whole == IF n >= 0 THEN FPowInt(inv, n) ELSE FPowInt(E, -n)
          IN IF half THEN FMul(whole, FSqrt(inv)) ELSE whole

\* Powerlaw.calculate(ener_lo, ener_hi): the photon flux in each bin,
\* norm * emid ** (-phoindex) * (ehi - elo), the flux taken at the midpoint.
calculate(model, elo, ehi) ==
    [i \in 1..Len(elo) |->
        LET emid == FDiv(FAdd(elo[i], ehi[i]), Whole(2))
        IN FMul(FMul(model.norm, PowNeg(emid, model.phoindex)), FSub(ehi[i], elo[i]))]

\* incident[i] = flux[i] * area[i] * exposure; without an ARF the flux itself.
apply_arf(xs, mflux) ==
    IF xs.arf = <<>> THEN mflux
    ELSE [i \in 1..Len(mflux) |-> FMul(FMul(mflux[i], xs.arf[i]), xs.exposure)]

\* predicted[j] = sum over i of incident[i] * R[i][j]; without an RMF the
\* identity mapping.
apply_rmf(xs, incident) ==
    IF xs.rmf = <<>> THEN incident
    ELSE [j \in 1..Len(xs.rmf[1]) |->
            FSum([i \in 1..Len(incident) |-> FMul(incident[i], xs.rmf[i][j])])]

\* apply_resp / apply_response: the forward fold.
apply_resp(xs, mflux) == apply_rmf(xs, apply_arf(xs, mflux))

---------------------------------------------------------------------------
(* State *)

VARIABLES
    xspec,      \* self.xspec: the loaded spectrum and its response
    model,      \* self.model: the live Powerlaw object (norm, phoindex)
    pc,         \* the notebook cell to run next
    par0,       \* the starting parameter vector
    lastEval,   \* the most recent method call: its name, argument and result
    xk, fk,     \* the minimizer's current iterate and its objective value
    nprobes,    \* objective evaluations the minimizer has made after par0
    res,        \* the OptimizeResult minimize returned
    mod0, model_out, res_out, mflux_out,   \* the notebook's results
    nResid,     \* how many times mod_residuals has run
    test_model, \* the result of test_apply_model
    ymodel, ydata,          \* a predicted / observed pair given to the statistics
    loglike, cashv, resid   \* and the statistics computed from it

fitvars == <<xspec, model, pc, par0, lastEval, xk, fk, nprobes, res, mod0,
             model_out, res_out, mflux_out, nResid, test_model>>
statvars == <<ymodel, ydata, loglike, cashv, resid>>
vars == <<fitvars, statvars>>

\* Parameter vectors (lognorm, pi) the minimizer evaluates: the notebook's
\* par0 = [-0.5, 2.5], another ordinary vector, and one whose lognorm is so
\* large that 10 ** lognorm overflows.
ParGrid == {<<Fin(-(Scale \div 2)), Fin((5 * Scale) \div 2)>>,
            <<Whole(0), Whole(2)>>,
            <<Fin(FMax), Fin((5 * Scale) \div 2)>>}

\* par0 = [-0.5, 2.5], or a starting vector at which the objective is not finite
Par0Set == {<<Fin(-(Scale \div 2)), Fin((5 * Scale) \div 2)>>,
            <<Fin(FMax), Fin((5 * Scale) \div 2)>>}

\* Powerlaw(): the parameters of a freshly constructed model
InitModels == {[norm |-> Whole(1), phoindex |-> Whole(2)],
               [norm |-> Whole(1), phoindex |-> Whole(0)]}

\* Observed counts per bin of the loaded spectra
FitCounts == {Whole(0), Whole(4)}

\* The responses a spectrum of n channels is loaded with: none, an ARF alone,
\* or an ARF (with a dead first bin) and an RMF that spreads each energy bin
\* over its own channel and the next.
Responses(n) ==
    {[arf |-> <<>>, rmf |-> <<>>],
     [arf |-> [i \in 1..n |-> Whole(2)], rmf |-> <<>>],
     [arf |-> [i \in 1..n |-> IF i = 1 THEN Fin(0) ELSE Whole(2)],
      rmf |-> [i \in 1..n |-> [j \in 1..n |->
                  IF j = i \/ j = i + 1 THEN Fin(Scale \div 2) ELSE Fin(0)]]]}

\* load_chandra_hetg / load_hetg: bins in keV, counts, exposure, response.
Spectra ==
    UNION {{[bin_lo |-> [i \in 1..n |-> Whole(i)],
             bin_hi |-> [i \in 1..n |-> Whole(i + 1)],
             counts |-> c,
             exposure |-> Whole(1),
             arf |-> r.arf,
             rmf |-> r.rmf] : c \in [1..n -> FitCounts], r \in Responses(n)}
           : n \in 1..MaxBins}

\* What test_apply_model leaves when its assert fails.
AssertionError == <<[k |-> "AssertionError", v |-> 0]>>

NoRes == [x |-> <<>>, fun |-> Unset, success |-> FALSE]
NoEval == [fn |-> "none", pars |-> <<>>, out |-> <<>>]

---------------------------------------------------------------------------
(* The methods of PowerlawPoissonFit.  Each takes the live model m and     *)
(* returns the model it leaves behind together with its result.  The class *)
(* reads self.counts and calls self.bin_counts and self.apply_resp, which  *)
(* it does not define: they are taken to be those of self.xspec.           *)

\* A set_model_pars that forgets the photon index.
set_model_pars_norm_only(m, pars) == [m EXCEPT !.norm = Pow10(pars[1])]

\* A set_model_pars that stores lognorm itself as the norm.
set_model_pars_raw_norm(m, pars) ==
    [m EXCEPT !.norm = pars[1], !.phoindex = pars[2]]

set_model_pars(m, pars) ==
    [m EXCEPT !.norm = Pow10(pars[1]), !.phoindex = pars[2]]

\* self.bin_counts(unit='keV')
bin_counts(xs) ==
    [elo |-> xs.bin_lo, ehi |-> xs.bin_hi, cts |-> xs.counts,
     cts_err |-> cts_err_of(xs.counts)]

\* A model_chist that evaluates the model on energy[:-1] edges.
model_chist_short(m, pars) ==
    LET b == bin_counts(xspec)
        m2 == set_model_pars(m, pars)
        mflux == calculate(m2, SubSeq(b.elo, 1, Len(b.elo) - 1),
                           SubSeq(b.ehi, 1, Len(b.ehi) - 1))
    IN [model |-> m2, out |-> apply_resp(xspec, mflux)]

model_chist(m, pars) ==
    LET b == bin_counts(xspec)
        m2 == set_model_pars(m, pars)
        mflux == calculate(m2, b.elo, b.ehi)
    IN [model |-> m2, out |-> apply_resp(xspec, mflux)]

loglikelihood(m, pars) ==
    LET r == model_chist(m, pars)
    IN [model |-> r.model, out |-> loglike_of(r.out, xspec.counts)]

cash(m, pars) ==
    LET r == loglikelihood(m, pars)
    IN [model |-> r.model, out |-> cash_of(r.out)]

mod_residuals(m, pars) ==
    LET r == model_chist(m, pars)
    IN [model |-> r.model, out |-> residuals_of(r.out, xspec.counts)]

---------------------------------------------------------------------------
(* The fit notebook, cell by cell *)

StatIdle ==
    /\ ymodel = <<>>
    /\ ydata = <<>>
    /\ loglike = Unset
    /\ cashv = Unset
    /\ resid = <<>>

\* mrk421 = PowerlawPoissonFit(mrk_heg1_file)
Init ==
    /\ xspec \in Spectra
    /\ model \in InitModels
    /\ par0 \in Par0Set
    /\ pc = "start"
    /\ lastEval = NoEval
    /\ xk = <<>>
    /\ fk = Unset
    /\ nprobes = 0
    /\ res = NoRes
    /\ mod0 = <<>>
    /\ model_out = <<>>
    /\ res_out = <<>>
    /\ mflux_out = <<>>
    /\ nResid = 0
    /\ test_model = <<>>
    /\ StatIdle

\* test_apply_model(chandra): a PowerLaw1D with alpha = 0 is the same flux,
\* its amplitude, in every bin; the assert compares the lengths.
test_apply_model ==
    /\ pc = "start"
    /\ test_model = <<>>
    /\ \E amplitude \in {Fin((3 * Scale) \div 10^5), Whole(3)} :
          LET model_flux == [i \in 1..Len(xspec.bin_lo) |-> amplitude]
              ym == apply_resp(xspec, model_flux)
          IN test_model' = IF Len(ym) = Len(xspec.bin_lo)
                           THEN ym ELSE AssertionError
    /\ UNCHANGED <<xspec, model, pc, par0, lastEval, xk, fk, nprobes, res, mod0,
                   model_out, res_out, mflux_out, nResid>>
    /\ UNCHANGED statvars

\* mod0 = mrk421.model_chist(par0)
Cell_mod0 ==
    /\ pc = "start"
    /\ LET r == model_chist(model, par0)
       IN /\ model' = r.model
          /\ mod0' = r.out
          /\ lastEval' = [fn |-> "model_chist", pars |-> par0, out |-> r.out]
    /\ pc' = "loglikelihood"
    /\ UNCHANGED <<xspec, par0, xk, fk, nprobes, res, model_out, res_out,
                   mflux_out, nResid, test_model>>
    /\ UNCHANGED statvars

\* mrk421.loglikelihood(par0)
Cell_loglikelihood ==
    /\ pc = "loglikelihood"
    /\ LET r == loglikelihood(model, par0)
       IN /\ model' = r.model
          /\ lastEval' = [fn |-> "loglikelihood", pars |-> par0, out |-> r.out]
    /\ pc' = "cash"
    /\ UNCHANGED <<xspec, par0, xk, fk, nprobes, res, mod0, model_out, res_out,
                   mflux_out, nResid, test_model>>
    /\ UNCHANGED statvars

\* mrk421.cash(par0)
Cell_cash ==
    /\ pc = "cash"
    /\ LET r == cash(model, par0)
       IN /\ model' = r.model
          /\ lastEval' = [fn |-> "cash", pars |-> par0, out |-> r.out]
    /\ pc' = "minimize"
    /\ UNCHANGED <<xspec, par0, xk, fk, nprobes, res, mod0, model_out, res_out,
                   mflux_out, nResid, test_model>>
    /\ UNCHANGED statvars

\* res = scipy.optimize.minimize(mrk421.cash, par0): the minimizer first
\* evaluates the objective at the starting vector,
minimize_start ==
    /\ pc = "minimize"
    /\ LET r == cash(model, par0)
       IN /\ model' = r.model
          /\ lastEval' = [fn |-> "cash", pars |-> par0, out |-> r.out]
          /\ xk' = par0
          /\ fk' = r.out
    /\ nprobes' = 0
    /\ pc' = "evaluating"
    /\ UNCHANGED <<xspec, par0, res, mod0, model_out, res_out, mflux_out,
                   nResid, test_model>>
    /\ UNCHANGED statvars

\* then at vectors of its own choosing, some of which become its iterate
\* (a line-search step) and some of which do not (a gradient probe),
minimize_probe ==
    /\ pc = "evaluating"
    /\ nprobes < MaxProbes
    /\ \E p \in ParGrid, accept \in BOOLEAN :
          LET r == cash(model, p)
          IN /\ model' = r.model
             /\ lastEval' = [fn |-> "cash", pars |-> p, out |-> r.out]
             /\ xk' = IF accept THEN p ELSE xk
             /\ fk' = IF accept THEN r.out ELSE fk
    /\ nprobes' = nprobes + 1
    /\ UNCHANGED <<xspec, pc, par0, res, mod0, model_out, res_out, mflux_out,
                   nResid, test_model>>
    /\ UNCHANGED statvars

\* and returns its iterate, the value there, and whether it converged.
minimize_return ==
    /\ pc = "evaluating"
    /\ \E success \in BOOLEAN :
          res' = [x |-> xk, fun |-> fk, success |-> success]
    /\ pc' = "model_out"
    /\ UNCHANGED <<xspec, model, par0, lastEval, xk, fk, nprobes, mod0,
                   model_out, res_out, mflux_out, nResid, test_model>>
    /\ UNCHANGED statvars

\* model_out = mrk421.model_chist(res.x)
Cell_model_out ==
    /\ pc = "model_out"
    /\ LET r == model_chist(model, res.x)
       IN /\ model' = r.model
          /\ model_out' = r.out
          /\ lastEval' = [fn |-> "model_chist", pars |-> res.x, out |-> r.out]
    /\ pc' = "res_out"
    /\ UNCHANGED <<xspec, par0, xk, fk, nprobes, res, mod0, res_out, mflux_out,
                   nResid, test_model>>
    /\ UNCHANGED statvars

\* res_out = mrk421.mod_residuals(res.x)
Cell_res_out ==
    /\ pc = "res_out"
    /\ LET r == mod_residuals(model, res.x)
       IN /\ model' = r.model
          /\ res_out' = r.out
          /\ lastEval' = [fn |-> "mod_residuals", pars |-> res.x, out |-> r.out]
    /\ nResid' = nResid + 1
    /\ pc' = "mflux_out"
    /\ UNCHANGED <<xspec, par0, xk, fk, nprobes, res, mod0, model_out,
                   mflux_out, test_model>>
    /\ UNCHANGED statvars

\* mflux_out = mrk421.model.calculate(bin_lo, bin_hi) / (bin_hi - bin_lo)
Cell_mflux_out ==
    /\ pc = "mflux_out"
    /\ LET f == calculate(model, xspec.bin_lo, xspec.bin_hi)
       IN mflux_out' = [i \in 1..Len(f) |->
                          FDiv(f[i], FSub(xspec.bin_hi[i], xspec.bin_lo[i]))]
    /\ pc' = "done"
    /\ UNCHANGED <<xspec, model, par0, lastEval, xk, fk, nprobes, res, mod0,
                   model_out, res_out, nResid, test_model>>
    /\ UNCHANGED statvars

Next ==
    \/ test_apply_model
    \/ Cell_mod0
    \/ Cell_loglikelihood
    \/ Cell_cash
    \/ minimize_start
    \/ minimize_probe
    \/ minimize_return
    \/ Cell_model_out
    \/ Cell_res_out
    \/ Cell_mflux_out

Spec == Init /\ [][Next]_vars

---------------------------------------------------------------------------
(* The statistics on their own: a predicted and an observed vector of the  *)
(* same length are drawn, and each statistic is computed from them once.   *)

\* Predicted counts: malformed (NaN, infinite, negative), zero, ordinary,
\* and as large as a finite value gets.
PredVals == {NaN, PInf, Whole(-1), Whole(0), Whole(1), Whole(2), Fin(FMax)}

\* Observed counts
ObsVals == {Whole(0), Whole(1), Whole(2)}

FitIdle ==
    /\ xspec = [bin_lo |-> <<>>, bin_hi |-> <<>>, counts |-> <<>>,
                exposure |-> Whole(1), arf |-> <<>>, rmf |-> <<>>]
    /\ model = [norm |-> Whole(1), phoindex |-> Whole(2)]
    /\ par0 = <<>>
    /\ pc = "statistics"
    /\ lastEval = NoEval
    /\ xk = <<>>
    /\ fk = Unset
    /\ nprobes = 0
    /\ res = NoRes
    /\ mod0 = <<>>
    /\ model_out = <<>>
    /\ res_out = <<>>
    /\ mflux_out = <<>>
    /\ nResid = 0
    /\ test_model = <<>>

StatInit ==
    /\ FitIdle
    /\ \/ \E n \in 1..MaxBins :
             /\ ymodel \in [1..n -> PredVals]
             /\ ydata \in [1..n -> ObsVals]
       \/ /\ ymodel = <<Whole(1), Whole(4), Whole(6)>>
          /\ ydata = <<Whole(0), Whole(4), Whole(9)>>
    /\ loglike = Unset
    /\ cashv = Unset
    /\ resid = <<>>

\* loglikelihood, from ymodel and ydata on
StatLogLike ==
    /\ loglike = Unset
    /\ loglike' = loglike_of(ymodel, ydata)
    /\ UNCHANGED <<ymodel, ydata, cashv, resid>>
    /\ UNCHANGED fitvars

\* cash: result = self.loglikelihood(pars); return -result/2.0
StatCash ==
    /\ cashv = Unset
    /\ cashv' = cash_of(loglike_of(ymodel, ydata))
    /\ UNCHANGED <<ymodel, ydata, loglike, resid>>
    /\ UNCHANGED fitvars

\* mod_residuals, from mcounts on
StatResiduals ==
    /\ resid = <<>>
    /\ resid' = residuals_of(ymodel, ydata)
    /\ UNCHANGED <<ymodel, ydata, loglike, cashv>>
    /\ UNCHANGED fitvars

StatNext == StatLogLike \/ StatCash \/ StatResiduals

SpecStat == StatInit /\ [][StatNext]_vars

---------------------------------------------------------------------------
(* Properties of the statistics (checked under SpecStat) *)

\* One bin's term x * ln(m) - m
Term(m, x) == FSub(FMul(x, FLog(m)), m)

RECURSIVE SumOver(_, _, _, _)
\* The sum of the terms of exactly the bins in I, from bin i on.
SumOver(ym, yd, I, i) ==
    IF i > Len(ym) THEN Fin(0)
    ELSE IF i \in I THEN FAdd(Term(ym[i], yd[i]), SumOver(ym, yd, I, i + 1))
    ELSE SumOver(ym, yd, I, i + 1)

\* A total, or -inf when it is not finite
OrNegInf(t) == IF t.k = "fin" THEN t ELSE NInf

Bins == 1..Len(ymodel)

\* C1: the Cash statistic equals -2 times the log-likelihood of the same
\* predicted and observed counts.
C1_CashIsMinusTwoLogLike ==
    cashv # Unset => cashv = FMul(Whole(-2), loglike_of(ymodel, ydata))

\* C2 as stated: logLikelihood sums x_i*ln(m_i) - m_i over exactly the bins
\* with m_i > 0 (no bin with m_i <= 0 enters the sum); stated for predicted
\* vectors without NaN.
C2_SumOverPositiveBins ==
    (loglike # Unset /\ \A i \in Bins : ymodel[i].k # "nan") =>
        loglike = OrNegInf(SumOver(ymodel, ydata,
                                   {i \in Bins : FLt(Fin(0), ymodel[i])}, 1))

\* C2 as amended: logLikelihood sums x_i*ln(m_i) - m_i over exactly the bins
\* with m_i != 0, so a bin with m_i == 0 contributes nothing whatever x_i is,
\* while a bin with m_i < 0 does enter the sum: its logarithm is NaN and the
\* result is -inf.
C2_SumOverNonZeroBins ==
    loglike # Unset =>
        /\ loglike = OrNegInf(SumOver(ymodel, ydata,
                                      {i \in Bins : ymodel[i] # Fin(0)}, 1))
        /\ (\E i \in Bins : ymodel[i].k = "fin" /\ ymodel[i].v < 0) => loglike = NInf

\* C2's case: a bin with zero model counts and positive observed counts beside
\* a bin with positive model counts, and a finite log-likelihood computed.
C2_Witness ==
    /\ loglike # Unset
    /\ loglike.k = "fin"
    /\ \E i \in Bins : ymodel[i] = Fin(0) /\ FLt(Fin(0), ydata[i])
    /\ \E i \in Bins : FLt(Fin(0), ymodel[i])

\* C3 as stated: logLikelihood never returns NaN or +inf, returns -inf when
\* any predicted_i is NaN, and returns a finite value whenever all
\* predicted_i >= 0 and at least one is positive.
C3_FiniteForNonNegative ==
    loglike # Unset =>
        /\ loglike.k \in {"fin", "ninf"}
        /\ (\E i \in Bins : ymodel[i].k = "nan") => loglike = NInf
        /\ ( /\ \A i \in Bins : FLe(Fin(0), ymodel[i])
             /\ \E i \in Bins : FLt(Fin(0), ymodel[i]) ) => IsFinite(loglike)

\* C3 as amended: logLikelihood never returns NaN or +inf; it returns -inf
\* when any predicted_i is NaN or +inf; and it returns a finite value whenever
\* all predicted_i are finite and >= 0 and their total is at most half the
\* largest finite value (so that the sum cannot overflow).
C3_FiniteForFiniteNonNegative ==
    loglike # Unset =>
        /\ loglike.k \in {"fin", "ninf"}
        /\ (\E i \in Bins : ymodel[i].k \in {"nan", "pinf"}) => loglike = NInf
        /\ ( /\ \A i \in Bins : ymodel[i].k = "fin" /\ ymodel[i].v >= 0
             /\ FLe(FSum(ymodel), Fin(FMax \div 2)) ) => IsFinite(loglike)

\* C3's case: a NaN among the predicted counts, and -inf returned.
C3_Witness ==
    /\ loglike = NInf
    /\ \E i \in Bins : ymodel[i].k = "nan"
    /\ \E i \in Bins : ymodel[i].k = "fin"

\* max(counts, 1)
FloorOne(c) == IF FLt(c, Whole(1)) THEN Whole(1) ELSE c

\* C4: every residual is (predicted_i - observed_i) / sqrt(max(observed_i, 1)),
\* so a bin with zero observed counts has residual predicted_i; stated for
\* finite predicted counts >= 0.
C4_ResidualOverFlooredError ==
    (resid # <<>> /\ \A i \in Bins : ymodel[i].k = "fin" /\ ymodel[i].v >= 0) =>
        \A i \in Bins :
            resid[i] = FDiv(FSub(ymodel[i], ydata[i]), FSqrt(FloorOne(ydata[i])))

\* C5: for a predicted vector with the same total as the observed one, the
\* Cash statistic of the observed vector against itself does not exceed the
\* Cash statistic of the predicted vector.
C5_SelfConsistentIsMinimal ==
    (cashv # Unset /\ FSum(ymodel) = FSum(ydata)) =>
        FLe(cash_of(loglike_of(ydata, ydata)), cashv)

---------------------------------------------------------------------------
(* Properties of the fit (checked under Spec) *)

\* The fit driver's state, read off the notebook's position.
FitState ==
    CASE pc \in {"start", "loglikelihood", "cash", "minimize"} -> "Initialized"
      [] pc = "evaluating" -> "Evaluating"
      [] OTHER -> IF res.success THEN "Converged" ELSE "Failed"

\* C6: when the minimizer reports non-convergence, or the objective is not
\* finite at the starting vector, no best-fit model, residuals or model flux
\* are produced from the minimizer's output.
C6_FailedFitProducesNothing ==
    (res # NoRes /\ (~res.success \/ ~IsFinite(cash(model, par0).out))) =>
        (model_out = <<>> /\ res_out = <<>> /\ mflux_out = <<>>)

\* What a freshly constructed fit object, its model being m0, returns for a call.
FreshEval(fn, pars, m0) ==
    CASE fn = "model_chist" -> model_chist(m0, pars).out
      [] fn = "loglikelihood" -> loglikelihood(m0, pars).out
      [] fn = "cash" -> cash(m0, pars).out
      [] OTHER -> mod_residuals(m0, pars).out

\* C7: whatever calls came before it, a call of cash (and of loglikelihood,
\* model_chist, mod_residuals) returns what a freshly constructed fit object
\* returns for the same parameter vector.
C7_ObjectiveHistoryIndependent ==
    lastEval.fn # "none" =>
        \A m0 \in InitModels :
            lastEval.out = FreshEval(lastEval.fn, lastEval.pars, m0)

\* C7's case: the minimizer has evaluated the objective at three different
\* vectors in a row, the last one giving a finite value.
C7_Witness ==
    /\ pc = "evaluating"
    /\ nprobes = 2
    /\ xk # par0
    /\ lastEval.pars # xk
    /\ lastEval.pars # par0
    /\ IsFinite(lastEval.out)

C9_ResidualsOnlyAfterConvergence ==
    res_out # <<>> =>
        /\ FitState = "Converged"
        /\ nResid = 1
        /\ \A m0 \in InitModels : res_out = mod_residuals(m0, res.x).out

\* The model parameters a parameter vector stands for
ModelOf(pars) == [norm |-> Pow10(pars[1]), phoindex |-> pars[2]]

\* C10: once any method has been called, the live model's (norm, phoindex)
\* are (10^lognorm, pi) of the most recently evaluated vector; so they are
\* those of the minimizer's last probe right after minimize returns, and
\* those of res.x when the final model flux is computed.
C10_LiveModelTracksLastEvaluation ==
    /\ lastEval.fn # "none" => model = ModelOf(lastEval.pars)
    /\ pc \in {"mflux_out", "done"} => model = ModelOf(res.x)
    /\ pc = "done" =>
          mflux_out = [i \in 1..Len(xspec.bin_lo) |->
                         FDiv(calculate(ModelOf(res.x), xspec.bin_lo, xspec.bin_hi)[i],
                              FSub(xspec.bin_hi[i], xspec.bin_lo[i]))]

\* C10's case: minimize has just returned, and the live model holds the last
\* probe's parameters, which are not those of res.x.
C10_Witness ==
    /\ pc = "model_out"
    /\ lastEval.pars # res.x
    /\ model = ModelOf(lastEval.pars)
    /\ model # ModelOf(res.x)

=============================================================================
